---- MODULE Spec2Model ----
(***************************************************************************)
(* Susceptibility distortion correction workflows of                      *)
(* fmriprep/workflows/fieldmap/unwarp.py: the two workflow builders       *)
(* (init_sdc_unwarp_wf, init_pepolar_unwarp_report_wf) as graphs of nodes  *)
(* and port-to-port edges, their execution in dependency order, and the    *)
(* helper functions (_generate_idata, _get_pedir_*, _pick_first, _demean). *)
(***************************************************************************)
EXTENDS Integers, Sequences, FiniteSets, TLC

\* ------------------------------------------------------------------ bounds
\* longest list of opposite-phase volumes (fmaps) a build is given
MaxFmaps == 2
\* most volumes along the 4th axis of an image (1 = a 3D image)
MaxVols == 2
\* number of voxels of the images handed to _demean
MaxVox == 3
\* longest PhaseEncodingDirection string drawn in SpecPedir
MaxCodeLen == 2

VARIABLES
    \* -- workflow construction and execution
    built,          \* "none" | "sdc" | "pepolar": which builder has returned
    fmap_bspline,   \* argument of init_sdc_unwarp_wf
    fmap_demean,    \* argument of init_sdc_unwarp_wf
    fmaps,          \* argument of init_pepolar_unwarp_report_wf: <<[epi |-> file]>>
    edges,          \* the workflow graph: set of port-to-port connections
    inputs,         \* node inputs set statically at build time
    done,           \* nodes the execution engine has run to completion
    results,        \* the list outputs of topup once it has run
    picked,         \* values delivered through (('out', _pick_first), 'in') edges
    \* -- _generate_idata / merge / PE-direction helpers
    pc,             \* position of the function under execution
    layout,         \* layout.get_metadata: file -> sidecar dict
    shape,          \* 4th dimension of each image file (1 = 3D)
    lines,          \* rows written to idata.txt so far
    idx,            \* loop position of "for fmap in fmaps"
    merged,         \* volumes of merge.merged_file, as <<file, volume>> pairs
    pedir,          \* results of the PE-direction consumers
    \* -- _demean
    data,           \* voxel values of in_file
    msk,            \* voxel values of in_mask
    out             \* what _demean wrote and returned

vars == <<built, fmap_bspline, fmap_demean, fmaps, edges, inputs, done,
          results, picked, pc, layout, shape, lines, idx, merged, pedir, data, msk, out>>

wfvars == <<built, fmap_bspline, fmap_demean, edges, inputs, done, results, picked>>
idvars == <<pc, layout, shape, lines, idx, merged, pedir>>
dmvars == <<data, msk, out>>

\* what a call returns: err = "" and the value, or the exception raised
Ok(v) == [err |-> "", val |-> v]
Raise(e) == [err |-> e, val |-> <<>>]
Unset == [err |-> "unset", val |-> <<>>]

\* unwarp.py:312-313: l[0]
_pick_first(l) == IF Len(l) = 0 THEN Raise("IndexError") ELSE Ok(l[1])

\* fsl.TOPUP lists one warp field and one Jacobian per volume of in_file
TopupOutputs(v) ==
    [out_warps |-> [i \in 1..v |-> <<"warpfield", i>>],
     out_jacs  |-> [i \in 1..v |-> <<"jac", i>>]]

NoResults == [out_warps |-> <<>>, out_jacs |-> <<>>]

\* ------------------------------------------------------------ graph model
\* workflow.connect([(src, dst, [(out, in)])]); fn names the function of a
\* (('out', fn), 'in') connection, "" when there is none.
E(s, o, d, i) == [src |-> s, out |-> o, fn |-> "", dst |-> d, in |-> i]
EF(s, o, f, d, i) == [src |-> s, out |-> o, fn |-> f, dst |-> d, in |-> i]

\* unwarp.py:157-196, the unconditional connections of init_sdc_unwarp_wf
SdcBaseEdges ==
    { E("inputnode", "name_source", "meta", "in_file"),
      E("inputnode", "in_reference", "explicit_mask_epi", "in_file"),
      E("inputnode", "in_mask", "explicit_mask_epi", "mask_file"),
      E("inputnode", "fmap_ref", "fmap2ref_reg", "moving_image"),
      E("inputnode", "in_reference", "fmap2ref_apply", "reference_image"),
      E("fmap2ref_reg", "composite_transform", "fmap2ref_apply", "transforms"),
      E("inputnode", "in_reference", "fmap_mask2ref_apply", "reference_image"),
      E("fmap2ref_reg", "composite_transform", "fmap_mask2ref_apply", "transforms"),
      E("inputnode", "name_source", "ds_reg_vsm", "source_file"),
      E("fmap2ref_apply", "out_report", "ds_reg_vsm", "in_file"),
      E("explicit_mask_epi", "out_file", "fmap2ref_reg", "fixed_image"),
      E("inputnode", "name_source", "ds_reg", "source_file"),
      E("fmap2ref_reg", "out_report", "ds_reg", "in_file"),
      E("inputnode", "fmap", "fmap2ref_apply", "input_image"),
      E("inputnode", "fmap_mask", "fmap_mask2ref_apply", "input_image"),
      E("fmap2ref_apply", "output_image", "torads", "in_file"),
      EF("meta", "out_dict", "_get_ec", "gen_vsm", "dwell_time"),
      EF("meta", "out_dict", "_get_pedir_fugue", "gen_vsm", "unwarp_direction"),
      EF("meta", "out_dict", "_get_pedir_bids", "vsm2dfm", "pe_dir"),
      E("torads", "out", "gen_vsm", "fmap_in_file"),
      E("vsm2dfm", "out_file", "unwarp_reference", "transforms"),
      E("inputnode", "in_reference", "unwarp_reference", "reference_image"),
      E("inputnode", "in_reference", "unwarp_reference", "input_image"),
      E("vsm2dfm", "out_file", "outputnode", "out_warp"),
      E("vsm2dfm", "out_file", "jac_dfm", "deformationField"),
      E("inputnode", "fmap_ref", "fieldmap_fov_mask", "in_file"),
      E("fieldmap_fov_mask", "out", "fmap_fov2ref_apply", "input_image"),
      E("inputnode", "in_reference", "fmap_fov2ref_apply", "reference_image"),
      E("fmap2ref_reg", "composite_transform", "fmap_fov2ref_apply", "transforms"),
      E("fmap_fov2ref_apply", "output_image", "apply_fov_mask", "mask_file"),
      E("unwarp_reference", "output_image", "apply_fov_mask", "in_file"),
      E("apply_fov_mask", "out_file", "ref_msk_post", "in_file"),
      E("apply_fov_mask", "out_file", "outputnode", "out_reference"),
      E("ref_msk_post", "mask_file", "outputnode", "out_mask"),
      E("ref_msk_post", "out_report", "outputnode", "out_mask_report"),
      E("jac_dfm", "jacobian_image", "outputnode", "out_jacobian") }

\* faulty variant: the condition on fmap_bspline inverted
BsplineEdges_Inverted(bspline) ==
    IF bspline
    THEN { E("fmap_mask2ref_apply", "output_image", "gen_vsm", "mask_file") }
    ELSE {}

\* unwarp.py:198-201
BsplineEdges(bspline) ==
    IF ~bspline
    THEN { E("fmap_mask2ref_apply", "output_image", "gen_vsm", "mask_file") }
    ELSE {}

\* faulty variant: the direct connection made unconditionally (the else: dropped)
DemeanEdges_NoElse(demean) ==
    (IF demean
     THEN { E("gen_vsm", "shift_out_file", "demean", "in_file"),
            E("fmap_mask2ref_apply", "output_image", "demean", "in_mask"),
            E("demean", "out", "vsm2dfm", "in_file") }
     ELSE {})
    \cup { E("gen_vsm", "shift_out_file", "vsm2dfm", "in_file") }

\* unwarp.py:203-216
DemeanEdges(demean) ==
    IF demean
    THEN { E("gen_vsm", "shift_out_file", "demean", "in_file"),
           E("fmap_mask2ref_apply", "output_image", "demean", "in_mask"),
           E("demean", "out", "vsm2dfm", "in_file") }
    ELSE { E("gen_vsm", "shift_out_file", "vsm2dfm", "in_file") }

\* faulty variant: the mask recomputed on the unwarped reference before FOV masking
init_sdc_unwarp_wf_MaskBeforeFov(bspline, demean) ==
    (SdcBaseEdges \ { E("apply_fov_mask", "out_file", "ref_msk_post", "in_file") })
    \cup { E("unwarp_reference", "output_image", "ref_msk_post", "in_file") }
    \cup BsplineEdges(bspline) \cup DemeanEdges(demean)

\* unwarp.py:38-218
init_sdc_unwarp_wf(bspline, demean) ==
    SdcBaseEdges \cup BsplineEdges(bspline) \cup DemeanEdges(demean)

\* unwarp.py:276-304, the connections of init_pepolar_unwarp_report_wf
PepolarEdges ==
    { E("inputnode", "in_reference", "explicit_mask_epi", "in_file"),
      E("inputnode", "in_mask", "explicit_mask_epi", "mask_file"),
      E("inputnode", "in_reference", "merge_list", "in1"),
      E("mag_inu", "output_image", "cphdr", "in_file"),
      E("cphdr", "out_file", "skullstrip", "in_file"),
      E("skullstrip", "mask_file", "apply_skullstrip", "mask_file"),
      E("cphdr", "out_file", "merge_list", "in2"),
      E("merge_list", "out", "merge", "in_files"),
      E("inputnode", "name_source", "generate_idata", "name_source"),
      E("generate_idata", "out", "topup", "encoding_file"),
      E("merge", "merged_file", "topup", "in_file"),
      E("inputnode", "in_reference", "cphdr_warp", "hdr_file"),
      EF("topup", "out_warps", "_pick_first", "cphdr_warp", "in_file"),
      E("cphdr_warp", "out_file", "to_ants", "in_file"),
      E("to_ants", "out", "unwarp_reference", "transforms"),
      E("inputnode", "in_reference", "unwarp_reference", "reference_image"),
      E("inputnode", "in_reference", "unwarp_reference", "input_image"),
      E("unwarp_reference", "output_image", "apply_jacobian", "in_file"),
      EF("topup", "out_jacs", "_pick_first", "apply_jacobian", "operand_file"),
      E("apply_jacobian", "out_file", "ref_msk_post", "in_file"),
      E("unwarp_reference", "output_image", "outputnode", "out_reference"),
      E("ref_msk_post", "mask_file", "outputnode", "out_mask"),
      E("ref_msk_post", "out_report", "outputnode", "out_mask_report"),
      E("to_ants", "out", "outputnode", "out_warp"),
      EF("topup", "out_jacs", "_pick_first", "outputnode", "out_jacobian") }

\* [fmap['epi'] for fmap in fmaps]
EpiList(fm) == [i \in 1..Len(fm) |-> fm[i].epi]

\* unwarp.py:234,237,245,256: inputs assigned on the nodes at build time
PepolarInputs(fm) ==
    { [node |-> "mag_inu", port |-> "input_image", value |-> EpiList(fm)],
      [node |-> "cphdr", port |-> "hdr_file", value |-> EpiList(fm)],
      [node |-> "apply_skullstrip", port |-> "in_file", value |-> EpiList(fm)],
      [node |-> "generate_idata", port |-> "fmaps", value |-> EpiList(fm)] }

\* faulty variant: both the disabled and the active connection into merge_list.in1
init_pepolar_unwarp_report_wf_BothIn1(fm) ==
    [edges |-> PepolarEdges
               \cup { E("explicit_mask_epi", "out_file", "merge_list", "in1") },
     inputs |-> PepolarInputs(fm)]

\* faulty variant: out_reference taken after the Jacobian multiplication
init_pepolar_unwarp_report_wf_JacRef(fm) ==
    [edges |-> (PepolarEdges
                \ { E("unwarp_reference", "output_image", "outputnode", "out_reference") })
               \cup { E("apply_jacobian", "out_file", "outputnode", "out_reference") },
     inputs |-> PepolarInputs(fm)]

\* unwarp.py:221-306
init_pepolar_unwarp_report_wf(fm) ==
    [edges |-> PepolarEdges, inputs |-> PepolarInputs(fm)]

\* the nodes of the workflow graph: connect() adds both ends of a connection
Nodes == {e.src : e \in edges} \cup {e.dst : e \in edges}

\* nodes whose outputs a node consumes
Preds(n) == {e.src : e \in {x \in edges : x.dst = n}}

Succs(S) == {e.dst : e \in {x \in edges : x.src \in S}}

RECURSIVE ReachFrom(_, _)
ReachFrom(S, k) ==
    IF k = 0 THEN S
    ELSE LET T == S \cup Succs(S)
         IN  IF T = S THEN S ELSE ReachFrom(T, k - 1)

\* nodes that depend, directly or not, on an output of n
Downstream(n) == ReachFrom(Succs({n}), Cardinality(Nodes))

\* the edges that feed input port p of node n
Feeds(n, p) == {e \in edges : e.dst = n /\ e.in = p}

\* ---------------------------------------------------------------- actions
FmapLists == UNION { [1..n -> [epi : 1..MaxFmaps]] : n \in 0..MaxFmaps }

IdleHelpers ==
    /\ pc = "idle" /\ layout = <<>> /\ shape = <<>> /\ lines = <<>>
    /\ idx = 0 /\ merged = <<>> /\ pedir = <<>>
    /\ data = <<>> /\ msk = <<>> /\ out = [err |-> "unset", val |-> <<>>]

Init ==
    /\ built = "none"
    /\ fmap_bspline = FALSE
    /\ fmap_demean = FALSE
    /\ fmaps = <<>>
    /\ edges = {}
    /\ inputs = {}
    /\ done = {}
    /\ results = NoResults
    /\ picked = {}
    /\ IdleHelpers

BuildSdc ==
    /\ built = "none"
    /\ \E b \in BOOLEAN, d \in BOOLEAN :
          /\ fmap_bspline' = b
          /\ fmap_demean' = d
          /\ edges' = init_sdc_unwarp_wf(b, d)
    /\ built' = "sdc"
    /\ inputs' = {}
    /\ UNCHANGED <<fmaps, done, results, picked, idvars, dmvars>>

BuildPepolar ==
    /\ built = "none"
    /\ \E fm \in FmapLists :
          /\ fmaps' = fm
          /\ edges' = init_pepolar_unwarp_report_wf(fm).edges
          /\ inputs' = init_pepolar_unwarp_report_wf(fm).inputs
    /\ built' = "pepolar"
    /\ UNCHANGED <<fmap_bspline, fmap_demean, done, results, picked, idvars, dmvars>>

\* the execution engine runs a node once every node feeding it has completed;
\* the value of a connection with a function is the function of the output
RunNode ==
    /\ built # "none"
    /\ \E n \in Nodes \ done :
          /\ Preds(n) \subseteq done
          /\ done' = done \cup {n}
          /\ picked' = picked \cup
                { [node |-> n, port |-> e.in, value |-> _pick_first(results[e.out])] :
                    e \in {x \in edges : x.dst = n /\ x.fn = "_pick_first"} }
          /\ IF n = "topup"
             THEN \E v \in 1..MaxVols : results' = TopupOutputs(v)
             ELSE results' = results
    /\ UNCHANGED <<built, fmap_bspline, fmap_demean, fmaps, edges, inputs,
                   idvars, dmvars>>

Next == BuildSdc \/ BuildPepolar \/ RunNode

Spec == Init /\ [][Next]_vars

\* ------------------------------------------------- acquisition table model
\* Strings that the code indexes are sequences of one-character strings:
\* "j-" is <<"j", "-">>.  Files are numbered: the *_bold file of name_source,
\* the reference image in_reference, and the opposite-phase volumes 1, 2, ...
\* in_reference is a single volume: it is resampled with dimension=3
\* (unwarp.py:264) and given one table row (oneline, unwarp.py:366).
NameSource == 0
InReference == -1
EpiFiles(n) == 1..n

\* meta["PhaseEncodingDirection"].endswith('-')
EndsWithMinus(code) == Len(code) > 0 /\ code[Len(code)] = "-"

\* meta["PhaseEncodingDirection"][0:1]
FirstChar(code) == IF Len(code) = 0 THEN "" ELSE code[1]

\* {'i':0, 'j':1, 'k':2}
AxisDict == [c \in {"i", "j", "k"} |-> CASE c = "i" -> 0 [] c = "j" -> 1 [] c = "k" -> 2]

\* faulty variant: polarity read from the wrong branch
GenLineArr_SignSwapped(meta) ==
    LET code == meta.PhaseEncodingDirection
        l3   == [<<"0", "0", "0", "0">> EXCEPT ![4] = ToString(meta.TotalReadoutTime)]
        dir  == IF EndsWithMinus(code) THEN "1" ELSE "-1"
        key  == FirstChar(code)
    IN  IF key \in DOMAIN AxisDict
        THEN Ok([l3 EXCEPT ![AxisDict[key] + 1] = dir])
        ELSE Raise("KeyError")

\* unwarp.py:353-360, one pass of the loop body of _gen_line: line_arr
GenLineArr(meta) ==
    LET code == meta.PhaseEncodingDirection
        l3   == [<<"0", "0", "0", "0">> EXCEPT ![4] = ToString(meta.TotalReadoutTime)]
        dir  == IF EndsWithMinus(code) THEN "-1" ELSE "1"
        key  == FirstChar(code)
    IN  IF key \in DOMAIN AxisDict
        THEN Ok([l3 EXCEPT ![AxisDict[key] + 1] = dir])
        ELSE Raise("KeyError")

\* unwarp.py:342-363: the rows _gen_line returns for in_file.  vols is
\* computed from the image's shape and then overwritten by 1 (line 351).
_gen_line(in_file, oneline, lay, shp) ==
    LET from_shape == IF shp = 1 \/ oneline THEN 1 ELSE shp
        vols       == 1
        row        == GenLineArr(lay[in_file])
    IN  IF row.err # "" THEN row
        ELSE Ok([i \in 1..vols |-> row.val])

\* unwarp.py:377-378
_get_pedir_bids(in_dict) == Ok(in_dict.PhaseEncodingDirection)

\* unwarp.py:381-382: .replace('i','x').replace('j','y').replace('k','z')
_get_pedir_fugue(in_dict) ==
    LET code == in_dict.PhaseEncodingDirection
        r(c) == CASE c = "i" -> "x" [] c = "j" -> "y" [] c = "k" -> "z" [] OTHER -> c
    IN  Ok([n \in 1..Len(code) |-> r(code[n])])

\* niu.Merge(2): out = in1 + in2, in1 a single file and in2 a list
MergeList(in1, in2) == <<in1>> \o in2

\* the volumes of one image, in order
Volumes(f, shp) == [v \in 1..shp[f] |-> <<f, v>>]

\* fsl.Merge(dimension='t'): the volumes of in_files, file after file
RECURSIVE FslMerge(_, _)
FslMerge(in_files, shp) ==
    IF in_files = <<>> THEN <<>>
    ELSE Volumes(Head(in_files), shp) \o FslMerge(Tail(in_files), shp)

\* PhaseEncodingDirection values drawn for the acquisition table
IdataCodes ==
    { <<"i">>, <<"j", "-">>, <<"k">>, <<"k", "-">>, <<"j", "x">>, <<"q">> }

\* every string of at most MaxCodeLen characters over this alphabet
CodeChars == {"i", "j", "k", "q", "-"}
AllCodes == UNION { [1..n -> CodeChars] : n \in 0..MaxCodeLen }

IdleWorkflow ==
    /\ built = "none" /\ fmap_bspline = FALSE /\ fmap_demean = FALSE
    /\ edges = {} /\ inputs = {} /\ done = {}
    /\ results = NoResults /\ picked = {}

IdleDemean == data = <<>> /\ msk = <<>> /\ out = Unset

\* ---- _generate_idata and the concatenation it must agree with
InitIdata ==
    /\ IdleWorkflow /\ IdleDemean
    /\ \E n \in 0..MaxFmaps :
          /\ fmaps = [i \in 1..n |-> [epi |-> i]]
          /\ \E pe \in [{NameSource} \cup EpiFiles(n) -> IdataCodes] :
                layout = [f \in DOMAIN pe |->
                             [PhaseEncodingDirection |-> pe[f],
                              TotalReadoutTime |-> f + 1]]
          /\ shape \in [{InReference} \cup EpiFiles(n) -> 1..MaxVols]
          /\ shape[InReference] = 1
    /\ pc = "start"
    /\ lines = <<>>
    /\ idx = 0
    /\ merged = <<>>
    /\ pedir = <<>>

\* unwarp.py:365-366: fp.write(_gen_line(name_source, True))
WriteReference ==
    /\ pc = "start"
    /\ LET r == _gen_line(NameSource, TRUE, layout, [f \in {NameSource} |-> 1])
       IN  IF r.err # ""
           THEN pc' = "raised" /\ UNCHANGED <<lines, idx>>
           ELSE pc' = "loop" /\ lines' = lines \o r.val /\ idx' = 1
    /\ UNCHANGED <<wfvars, fmaps, layout, shape, merged, pedir, dmvars>>

\* unwarp.py:367-368: for fmap in fmaps: fp.write(_gen_line(fmap['epi']))
WriteFmap ==
    /\ pc = "loop"
    /\ idx <= Len(fmaps)
    /\ LET r == _gen_line(fmaps[idx].epi, FALSE, layout, shape)
       IN  IF r.err # ""
           THEN pc' = "raised" /\ UNCHANGED <<lines, idx>>
           ELSE pc' = "loop" /\ lines' = lines \o r.val /\ idx' = idx + 1
    /\ UNCHANGED <<wfvars, fmaps, layout, shape, merged, pedir, dmvars>>

\* unwarp.py:370: return out_file
ReturnIdata ==
    /\ pc = "loop"
    /\ idx > Len(fmaps)
    /\ pc' = "done"
    /\ UNCHANGED <<wfvars, fmaps, layout, shape, lines, idx, merged, pedir, dmvars>>

\* mag_inu (bias-field correction) and cphdr (header repair) map each
\* opposite-phase image to a corrected image with the same volumes
CorrectedShape(shp) == [f \in DOMAIN shp |-> shp[f]]

\* unwarp.py:280-289: merge_list and merge produce topup's in_file
RunMerge ==
    /\ pc \in {"start", "loop", "done"}
    /\ merged = <<>>
    /\ merged' = FslMerge(MergeList(InReference, EpiList(fmaps)), CorrectedShape(shape))
    /\ UNCHANGED <<wfvars, fmaps, layout, shape, pc, lines, idx, pedir, dmvars>>

NextIdata == WriteReference \/ WriteFmap \/ ReturnIdata \/ RunMerge

SpecIdata == InitIdata /\ [][NextIdata]_vars

\* ---- the consumers of PhaseEncodingDirection, each applied to one sidecar
InitPedir ==
    /\ IdleWorkflow /\ IdleDemean
    /\ fmaps = <<>>
    /\ layout \in [{NameSource} -> [PhaseEncodingDirection : AllCodes, TotalReadoutTime : {1}]]
    /\ shape = [f \in {NameSource} |-> 1]
    /\ pc = "meta"
    /\ lines = <<>>
    /\ idx = 0
    /\ merged = <<>>
    /\ pedir = [gen_line |-> Unset, fugue |-> Unset, bids |-> Unset]

\* unwarp.py:366
CallGenLine ==
    /\ pc = "meta"
    /\ pedir.gen_line = Unset
    /\ pedir' = [pedir EXCEPT !.gen_line = _gen_line(NameSource, TRUE, layout, shape)]
    /\ UNCHANGED <<wfvars, fmaps, layout, shape, pc, lines, idx, merged, dmvars>>

\* unwarp.py:177
CallPedirFugue ==
    /\ pc = "meta"
    /\ pedir.fugue = Unset
    /\ pedir' = [pedir EXCEPT !.fugue = _get_pedir_fugue(layout[NameSource])]
    /\ UNCHANGED <<wfvars, fmaps, layout, shape, pc, lines, idx, merged, dmvars>>

\* unwarp.py:178
CallPedirBids ==
    /\ pc = "meta"
    /\ pedir.bids = Unset
    /\ pedir' = [pedir EXCEPT !.bids = _get_pedir_bids(layout[NameSource])]
    /\ UNCHANGED <<wfvars, fmaps, layout, shape, pc, lines, idx, merged, dmvars>>

NextPedir == CallGenLine \/ CallPedirFugue \/ CallPedirBids

SpecPedir == InitPedir /\ [][NextPedir]_vars

\* ------------------------------------------------------------ _demean model
\* Voxel values are floats; a finite value v is held as the integer 2*v, so
\* that the median of an even number of integers stays exact.
Fin(x2) == [nan |-> FALSE, x2 |-> x2]
NaN == [nan |-> TRUE, x2 |-> 0]

DataVals == {-1, 0, 2}
MaskVals == {-1, 0, 1}

\* data[msk > 0]: the values of data where the mask is positive, in order
RECURSIVE Selected(_, _, _)
Selected(d, m, i) ==
    IF i > Len(d) THEN <<>>
    ELSE (IF m[i] > 0 THEN <<d[i]>> ELSE <<>>) \o Selected(d, m, i + 1)

\* the k-th smallest element of s
Kth(s, k) ==
    CHOOSE v \in {s[i] : i \in 1..Len(s)} :
        /\ Cardinality({i \in 1..Len(s) : s[i] < v}) < k
        /\ Cardinality({i \in 1..Len(s) : s[i] <= v}) >= k

\* np.median: middle element, or the mean of the two middle elements; of an
\* empty selection it is nan (numpy warns and raises nothing)
Median(s) ==
    LET n == Len(s)
    IN  IF n = 0 THEN NaN
        ELSE IF n % 2 = 1 THEN Fin(2 * Kth(s, (n + 1) \div 2))
        ELSE Fin(Kth(s, n \div 2) + Kth(s, n \div 2 + 1))

\* x - m in floating point: nan when m is nan
Minus(x, m) == IF m.nan THEN NaN ELSE Fin(2 * x - m.x2)

\* unwarp.py:399-412.  A mask of another shape than the data makes the boolean
\* index of line 409 raise; otherwise the image is written and its name returned.
_demean(d, m) ==
    IF Len(m) # Len(d) THEN Raise("IndexError")
    ELSE LET med == Median(Selected(d, m, 1))
         IN  Ok([i \in 1..Len(d) |-> Minus(d[i], med)])

InitDemean ==
    /\ IdleWorkflow
    /\ fmaps = <<>> /\ layout = <<>> /\ shape = <<>> /\ lines = <<>>
    /\ idx = 0 /\ merged = <<>> /\ pedir = <<>>
    /\ pc = "demean"
    /\ data \in UNION { [1..n -> DataVals] : n \in 1..MaxVox }
    /\ msk \in UNION { [1..n -> MaskVals] : n \in 1..MaxVox }
    /\ out = Unset

\* the demean node runs _demean on gen_vsm's shift map and the resampled mask
RunDemean ==
    /\ pc = "demean"
    /\ out = Unset
    /\ out' = _demean(data, msk)
    /\ UNCHANGED <<wfvars, fmaps, idvars, data, msk>>

NextDemean == RunDemean

SpecDemean == InitDemean /\ [][NextDemean]_vars

\* ------------------------------------------------- claims on the workflows
\* C1: a build of init_sdc_unwarp_wf feeds vsm2dfm.in_file by exactly one
\* edge: with fmap_demean false it is gen_vsm.shift_out_file and the graph has
\* no demean node; with fmap_demean true it is demean.out, and demean is fed
\* by gen_vsm.shift_out_file and by the resampled fieldmap mask.
C1_OneDemeanTopology ==
    built = "sdc" =>
        IF fmap_demean
        THEN /\ Feeds("vsm2dfm", "in_file") = { E("demean", "out", "vsm2dfm", "in_file") }
             /\ Feeds("demean", "in_file")
                    = { E("gen_vsm", "shift_out_file", "demean", "in_file") }
             /\ Feeds("demean", "in_mask")
                    = { E("fmap_mask2ref_apply", "output_image", "demean", "in_mask") }
        ELSE /\ Feeds("vsm2dfm", "in_file")
                    = { E("gen_vsm", "shift_out_file", "vsm2dfm", "in_file") }
             /\ "demean" \notin Nodes

C1_Witness ==
    built = "sdc" /\ fmap_demean /\ {"demean", "vsm2dfm"} \subseteq done

\* C2: in both workflows, whatever the flags and the list fmaps, the graph has
\* no cycle and no input port is the destination of two edges (none of the
\* builders uses the exception for collection ports).
C2_AcyclicSingleFed ==
    built # "none" =>
        /\ \A n \in Nodes : n \notin Downstream(n)
        /\ \A e1 \in edges, e2 \in edges :
              (e1.dst = e2.dst /\ e1.in = e2.in) => e1 = e2

C2_Witness ==
    built = "pepolar" /\ Len(fmaps) = MaxFmaps /\ done = Nodes

\* C3: in the fieldmap workflow out_reference is apply_fov_mask.out_file;
\* apply_fov_mask masks the unwarped reference with the ones-filled fmap_ref
\* resampled by the composite transform that also resamples the fieldmap and
\* its mask; out_mask and out_mask_report come from ref_msk_post, computed on
\* the FOV-masked image; so apply_fov_mask never completes before
\* unwarp_reference and fmap_fov2ref_apply, nor ref_msk_post before it.
C3_FovMaskOrder ==
    built = "sdc" =>
        /\ Feeds("outputnode", "out_reference")
              = { E("apply_fov_mask", "out_file", "outputnode", "out_reference") }
        /\ Feeds("apply_fov_mask", "in_file")
              = { E("unwarp_reference", "output_image", "apply_fov_mask", "in_file") }
        /\ Feeds("apply_fov_mask", "mask_file")
              = { E("fmap_fov2ref_apply", "output_image", "apply_fov_mask", "mask_file") }
        /\ Feeds("fmap_fov2ref_apply", "input_image")
              = { E("fieldmap_fov_mask", "out", "fmap_fov2ref_apply", "input_image") }
        /\ Feeds("fieldmap_fov_mask", "in_file")
              = { E("inputnode", "fmap_ref", "fieldmap_fov_mask", "in_file") }
        /\ \A n \in {"fmap_fov2ref_apply", "fmap2ref_apply", "fmap_mask2ref_apply"} :
              Feeds(n, "transforms")
                  = { E("fmap2ref_reg", "composite_transform", n, "transforms") }
        /\ Feeds("ref_msk_post", "in_file")
              = { E("apply_fov_mask", "out_file", "ref_msk_post", "in_file") }
        /\ Feeds("outputnode", "out_mask")
              = { E("ref_msk_post", "mask_file", "outputnode", "out_mask") }
        /\ Feeds("outputnode", "out_mask_report")
              = { E("ref_msk_post", "out_report", "outputnode", "out_mask_report") }
        /\ "apply_fov_mask" \in done
              => {"unwarp_reference", "fmap_fov2ref_apply"} \subseteq done
        /\ "ref_msk_post" \in done => "apply_fov_mask" \in done

C3_Witness ==
    built = "sdc" /\ {"apply_fov_mask", "ref_msk_post"} \subseteq done

\* C7: in the PEPOLAR workflow the volumes entering the concatenation through
\* merge_list.in2 are the outputs of apply_skullstrip, and apply_skullstrip
\* masks the corrected, header-repaired volumes (cphdr.out_file), not the raw
\* input volumes; the reference enters through merge_list.in1.
C7_MaskedVolumesMerged ==
    built = "pepolar" =>
        /\ Feeds("merge_list", "in2")
              = { E("apply_skullstrip", "out_file", "merge_list", "in2") }
        /\ Feeds("apply_skullstrip", "in_file")
              = { E("cphdr", "out_file", "apply_skullstrip", "in_file") }
        /\ \A i \in inputs : ~(i.node = "apply_skullstrip" /\ i.port = "in_file")
        /\ Feeds("apply_skullstrip", "mask_file")
              = { E("skullstrip", "mask_file", "apply_skullstrip", "mask_file") }
        /\ Feeds("merge_list", "in1")
              = { E("inputnode", "in_reference", "merge_list", "in1") }
        /\ Feeds("merge", "in_files") = { E("merge_list", "out", "merge", "in_files") }

\* C9: in the fieldmap workflow the resampled fieldmap mask feeds
\* gen_vsm.mask_file exactly when fmap_bspline is false (otherwise the port has
\* no edge), and feeds demean.in_mask exactly when fmap_demean is true,
\* whatever fmap_bspline is.
C9_MaskToVsmIffNotBspline ==
    built = "sdc" =>
        /\ Feeds("gen_vsm", "mask_file")
              = IF fmap_bspline THEN {}
                ELSE { E("fmap_mask2ref_apply", "output_image", "gen_vsm", "mask_file") }
        /\ (E("fmap_mask2ref_apply", "output_image", "demean", "in_mask") \in edges)
              <=> fmap_demean

C9_Witness ==
    built = "sdc" /\ ~fmap_bspline /\ fmap_demean /\ "gen_vsm" \in done

\* C10: in the PEPOLAR workflow ref_msk_post is fed by apply_jacobian.out_file
\* while out_reference is fed by unwarp_reference.output_image and does not
\* depend on apply_jacobian; out_jacobian is _pick_first of topup.out_jacs and
\* out_warp is _pick_first of topup.out_warps after cphdr_warp and to_ants.
C10_JacobianOnlyOnMaskPath ==
    built = "pepolar" =>
        /\ Feeds("ref_msk_post", "in_file")
              = { E("apply_jacobian", "out_file", "ref_msk_post", "in_file") }
        /\ Feeds("outputnode", "out_mask")
              = { E("ref_msk_post", "mask_file", "outputnode", "out_mask") }
        /\ Feeds("outputnode", "out_mask_report")
              = { E("ref_msk_post", "out_report", "outputnode", "out_mask_report") }
        /\ Feeds("outputnode", "out_reference")
              = { E("unwarp_reference", "output_image", "outputnode", "out_reference") }
        /\ "unwarp_reference" \notin Downstream("apply_jacobian")
        /\ \A e \in Feeds("outputnode", "out_reference") :
              e.src \notin Downstream("apply_jacobian") \cup {"apply_jacobian"}
        /\ Feeds("outputnode", "out_jacobian")
              = { EF("topup", "out_jacs", "_pick_first", "outputnode", "out_jacobian") }
        /\ Feeds("outputnode", "out_warp")
              = { E("to_ants", "out", "outputnode", "out_warp") }
        /\ Feeds("to_ants", "in_file")
              = { E("cphdr_warp", "out_file", "to_ants", "in_file") }
        /\ Feeds("cphdr_warp", "in_file")
              = { EF("topup", "out_warps", "_pick_first", "cphdr_warp", "in_file") }
        /\ "outputnode" \in done =>
              [node |-> "outputnode", port |-> "out_jacobian",
               value |-> Ok(Head(results.out_jacs))] \in picked
        /\ "cphdr_warp" \in done =>
              [node |-> "cphdr_warp", port |-> "in_file",
               value |-> Ok(Head(results.out_warps))] \in picked

C10_Witness ==
    /\ built = "pepolar" /\ {"apply_jacobian", "outputnode"} \subseteq done
    /\ Len(results.out_jacs) > 1

\* ------------------------------------------- claims on the helper functions
\* the row that describes a volume whose sidecar is meta: "1" or "-1" at the
\* index of the phase-encoding axis (i, j, k -> 1st, 2nd, 3rd), "-1" exactly
\* when the code ends with "-", "0" at the other two, then the readout time
RowDescribes(row, meta) ==
    LET code == meta.PhaseEncodingDirection
        ax   == CASE code[1] = "i" -> 1 [] code[1] = "j" -> 2 [] code[1] = "k" -> 3
    IN  /\ Len(row) = 4
        /\ row[ax] = (IF code[Len(code)] = "-" THEN "-1" ELSE "1")
        /\ \A c \in (1..3) \ {ax} : row[c] = "0"
        /\ Cardinality({c \in 1..3 : row[c] # "0"}) = 1
        /\ row[4] = ToString(meta.TotalReadoutTime)

\* C4: when _generate_idata returns, the table has Len(fmaps) + 1 rows, row 0
\* describes name_source's own sidecar, rows 1..N describe the volumes of
\* fmaps in input order, and every row has exactly one nonzero axis component.
C4_TableRows ==
    pc = "done" =>
        /\ Len(lines) = Len(fmaps) + 1
        /\ RowDescribes(lines[1], layout[NameSource])
        /\ \A i \in 1..Len(fmaps) : RowDescribes(lines[i + 1], layout[fmaps[i].epi])

C4_Witness ==
    /\ pc = "done"
    /\ Len(fmaps) >= 2
    /\ layout[fmaps[1].epi].PhaseEncodingDirection = <<"j", "-">>
    /\ layout[fmaps[2].epi].PhaseEncodingDirection = <<"k">>
    /\ shape[fmaps[1].epi] > 1

\* the recognized grammar: an axis letter, optionally followed by "-"
InGrammar(code) ==
    /\ Len(code) \in {1, 2}
    /\ code[1] \in {"i", "j", "k"}
    /\ Len(code) = 2 => code[2] = "-"

\* C5: every consumer of a phase-encoding code outside the grammar (_gen_line,
\* _get_pedir_fugue, _get_pedir_bids) ends in an error.
C5_BadCodeIsFatal ==
    (pc = "meta" /\ ~InGrammar(layout[NameSource].PhaseEncodingDirection)) =>
        \A c \in {"gen_line", "fugue", "bids"} :
            pedir[c] # Unset => pedir[c].err # ""

\* C6: _demean with a mask that has no voxel > 0 fails and writes no output.
C6_EmptyMaskIsFatal ==
    (pc = "demean" /\ out # Unset /\ \A i \in 1..Len(msk) : msk[i] <= 0) =>
        out.err # ""

\* the sidecar that describes a volume of the concatenated image: the
\* reference image is described by the sidecar of name_source
MetaOfVolume(v) == IF v[1] = InReference THEN layout[NameSource] ELSE layout[v[1]]

====
